---- MODULE Spec2Model ----
(***************************************************************************)
(* hyprlauncher: the application catalogue (APP_CACHE), the usage heatmap, *)
(* the search functions (search_applications, search_dmenu) and the        *)
(* launch-count recording thread, as state machines.                       *)
(*                                                                         *)
(* A string is a sequence of one-character strings; the catalogue and the  *)
(* heatmap are functions keyed by such strings.                            *)
(***************************************************************************)
EXTENDS Integers, Sequences, FiniteSets, TLC

\* ------------------------------------------------------------------ bounds

\* config.window.max_entries ranges over 0..MaxEntriesBound
MaxEntriesBound == 2
\* the clock advances at most this many times in the concurrent specification
MaxTicks == 1
\* launch events over one behaviour of the concurrent specification
MaxLaunches == 2

\* ------------------------------------------------------- program constants

BONUS_SCORE_ICON_NAME == 1000
BONUS_SCORE_BINARY == 3000
BONUS_SCORE_KEYWORD_MATCH == 2500
BONUS_SCORE_CATEGORY_MATCH == 2000
BONUS_SCORE_WEB_SEARCH == -1000
BONUS_SCORE_CALC == 1000
OPEN_WINDOW_PENALTY == -500
\* per matched character, as the fuzzy matcher scores it
SKIM_SCORE_MATCH == 16
\* seconds the clock advances per tick of the model
ClockStep == 10

NoneVal == -1

Min(a, b) == IF a < b THEN a ELSE b

\* ----------------------------------------------------------------- strings

\* char::to_lowercase over the letters the model's strings use
LowerChar(c) ==
  CASE c = "A" -> "a"
    [] c = "B" -> "b"
    [] c = "C" -> "c"
    [] c = "R" -> "r"
    [] c = "S" -> "s"
    [] OTHER -> c

IsUpperChar(c) == c \in {"A", "B", "C", "R", "S"}

IsAsciiDigit(c) == c \in {"0", "1", "2", "3", "4", "5", "6", "7", "8", "9"}

IsAlphanumeric(c) == IsAsciiDigit(c) \/ c \in
  {"A", "B", "C", "R", "S", "a", "b", "c", "d", "e", "f", "g", "h", "i", "l",
   "n", "o", "r", "s", "t", "w", "x"}

\* the byte value of a character (the order str::cmp uses)
CharCode(c) ==
  CASE c = " " -> 32 [] c = "'" -> 39 [] c = "-" -> 45 [] c = "/" -> 47
    [] c = "1" -> 49 [] c = "2" -> 50 [] c = ":" -> 58
    [] c = "A" -> 65 [] c = "B" -> 66 [] c = "C" -> 67 [] c = "R" -> 82
    [] c = "S" -> 83 [] c = "_" -> 95
    [] c = "a" -> 97 [] c = "b" -> 98 [] c = "c" -> 99 [] c = "d" -> 100
    [] c = "e" -> 101 [] c = "f" -> 102 [] c = "g" -> 103 [] c = "h" -> 104
    [] c = "i" -> 105 [] c = "l" -> 108 [] c = "n" -> 110 [] c = "o" -> 111
    [] c = "r" -> 114 [] c = "s" -> 115 [] c = "t" -> 116 [] c = "w" -> 119
    [] c = "x" -> 120 [] c = "~" -> 126
    [] OTHER -> 0

\* str::to_lowercase
ToLowercase(s) == [i \in 1..Len(s) |-> LowerChar(s[i])]

\* str::eq_ignore_ascii_case
EqIgnoreAsciiCase(a, b) == ToLowercase(a) = ToLowercase(b)

\* Ord for str: lexicographic on bytes; StrLeq(a, b) is a <= b
StrLeq(a, b) ==
  \E k \in 0..Min(Len(a), Len(b)) :
    /\ \A i \in 1..k : a[i] = b[i]
    /\ \/ k = Len(a)
       \/ k < Len(b) /\ CharCode(a[k + 1]) < CharCode(b[k + 1])

\* str::contains
Contains(s, pat) ==
  \E i \in 0..(Len(s) - Len(pat)) : SubSeq(s, i + 1, i + Len(pat)) = pat

\* str::find(char): the 1-based position of the first c, 0 when absent
FindChar(s, c) ==
  IF \E i \in 1..Len(s) : s[i] = c
  THEN CHOOSE i \in 1..Len(s) : s[i] = c /\ \A j \in 1..(i - 1) : s[j] # c
  ELSE 0

RECURSIVE SplitWhitespace(_)
\* str::split_whitespace().collect()
SplitWhitespace(s) ==
  IF s = <<>> THEN <<>>
  ELSE IF Head(s) = " " THEN SplitWhitespace(Tail(s))
  ELSE LET sp == FindChar(s, " ")
           n == IF sp = 0 THEN Len(s) + 1 ELSE sp
       IN <<SubSeq(s, 1, n - 1)>> \o SplitWhitespace(SubSeq(s, n, Len(s)))

RECURSIVE JoinSpace(_)
\* [..].join(" ")
JoinSpace(parts) ==
  IF parts = <<>> THEN <<>>
  ELSE IF Len(parts) = 1 THEN parts[1]
  ELSE parts[1] \o <<" ">> \o JoinSpace(Tail(parts))

\* utf8_percent_encode(_, NON_ALPHANUMERIC): one token per input character
PercentEncode(s) ==
  [i \in 1..Len(s) |->
     IF IsAlphanumeric(s[i]) THEN s[i]
     ELSE CASE s[i] = " " -> "%20" [] s[i] = "'" -> "%27" [] s[i] = "-" -> "%2D"
            [] s[i] = "/" -> "%2F" [] s[i] = ":" -> "%3A" [] s[i] = "_" -> "%5F"
            [] s[i] = "~" -> "%7E" [] OTHER -> "%"]

\* ----------------------------------------------------------- fuzzy matcher

RECURSIVE IsSubsequence(_, _)
IsSubsequence(p, s) ==
  IF p = <<>> THEN TRUE
  ELSE IF s = <<>> THEN FALSE
  ELSE IF Head(p) = Head(s) THEN IsSubsequence(Tail(p), Tail(s))
  ELSE IsSubsequence(p, Tail(s))

ContainsUpper(s) == \E i \in 1..Len(s) : IsUpperChar(s[i])

\* SkimMatcherV2 with smart case (its default): the pattern is matched as a
\* subsequence of the choice, case-sensitively only when the pattern itself
\* holds an upper-case letter
FuzzyMatches(choice, pattern) ==
  IF ContainsUpper(pattern)
  THEN IsSubsequence(pattern, choice)
  ELSE IsSubsequence(ToLowercase(pattern), ToLowercase(choice))

\* the score of a successful match: SKIM_SCORE_MATCH per matched character,
\* less one per character of the choice left unmatched
FuzzyScore(choice, pattern) ==
  SKIM_SCORE_MATCH * Len(pattern) - (Len(choice) - Len(pattern))

\* ------------------------------------------------------------ sequences

\* the elements of a finite set in some fixed order
SetToSeq(S) ==
  LET seqOf[T \in SUBSET S] ==
        IF T = {} THEN <<>>
        ELSE <<CHOOSE y \in T : TRUE>> \o seqOf[T \ {CHOOSE y \in T : TRUE}]
  IN seqOf[S]

RECURSIVE Flatten(_)
Flatten(ss) == IF ss = <<>> THEN <<>> ELSE Head(ss) \o Flatten(Tail(ss))

\* Vec::truncate
Truncate(seq, n) == SubSeq(seq, 1, Min(Len(seq), n))

\* every order of the elements seq[i], i \in idx, that is non-decreasing in
\* key[i]: what a sort by that key can return, the order among equal keys
\* being the (unspecified) order the elements arrived in
SortedArrangements(seq, key, idx) ==
  UNION {LET arranged[I \in SUBSET idx] ==
               IF I = {} THEN {<<>>}
               ELSE UNION {{<<sk[1][i]>> \o rest : rest \in arranged[I \ {i}]} :
                             i \in {k \in I : \A j \in I : sk[2][k] <= sk[2][j]}}
         IN arranged[idx] : sk \in {<<seq, key>>}}

\* ------------------------------------------------------------ AppEntry

NoIcon == "none"
GenericIcon == "application-x-executable"

\* the desktop files of the scan directories, by file name: a fixed set of
\* three descriptors
DesktopFiles == {"ab", "abc", "b"}

DesktopFile(f) ==
  CASE f = "ab" ->
         [Name |-> <<"a", "b">>, Exec |-> <<"a", "b", " ", "%", "U">>, Icon |-> NoIcon,
          NoDisplay |-> FALSE, Keywords |-> <<>>, Categories |-> <<>>,
          Actions |-> <<>>]
    [] f = "abc" ->
         [Name |-> <<"A", "b", "c">>, Exec |-> <<"a", "b", "c">>, Icon |-> "abc-icon",
          NoDisplay |-> FALSE, Keywords |-> << <<"x", "a">> >>,
          Categories |-> << <<"x", "b">> >>,
          Actions |-> << [name |-> <<"n", "a">>, exec |-> <<"a", "b", "c", " ", "-", "n">>,
                          icon_name |-> NoIcon] >>]
    [] f = "b" ->
         [Name |-> <<"B">>, Exec |-> <<"b">>, Icon |-> "b-icon",
          NoDisplay |-> FALSE, Keywords |-> << <<"a", "b">> >>,
          Categories |-> << <<"x">> >>, Actions |-> <<>>]

\* raw_exec.split_whitespace().filter(|arg| !arg.starts_with('%')).join(" ")
StripPlaceholders(raw_exec) ==
  JoinSpace(SelectSeq(SplitWhitespace(raw_exec), LAMBDA arg : Head(arg) # "%"))

\* parse_desktop_entry: the entry of one descriptor, NoneVal when it is hidden
ParseDesktopEntry(f) ==
  LET d == DesktopFile(f) IN
  IF d.NoDisplay THEN NoneVal
  ELSE [name |-> d.Name,
        description |-> <<>>,
        path |-> <<"/usr/share/applications/", f, ".desktop">>,
        exec |-> StripPlaceholders(d.Exec),
        icon_name |-> IF d.Icon = NoIcon THEN GenericIcon ELSE d.Icon,
        launch_count |-> 0,
        last_used |-> NoneVal,
        entry_type |-> "Application",
        score_boost |-> 0,
        keywords |-> d.Keywords,
        categories |-> d.Categories,
        terminal |-> FALSE,
        actions |-> d.Actions]

\* the entry parsed from each descriptor of the scan directories
ParsedEntries == [f \in DesktopFiles |-> ParseDesktopEntry(f)]

\* ------------------------------------------------------------- heatmap

EmptyMap == [n \in {} |-> 0]

\* the heatmap file before its first write: absent
MissingFile == [status |-> "missing", map |-> EmptyMap]

\* the heatmap file as save_heatmap writes it
WrittenFile(hm) == [status |-> "valid", map |-> hm]

\* fs::read_to_string(path).ok() is Some
ReadToString(file) == file.status \notin {"missing", "unreadable"}

\* serde_json::from_str(&contents).ok() is Some
FromStr(file) == file.status = "valid"

\* a load that returns the records of the file whatever its state
LoadHeatmapUnchecked(file) == file.map

\* load_heatmap: the stored mapping, empty when the file cannot be read or
\* its contents cannot be parsed
LoadHeatmap(file) == IF ReadToString(file) /\ FromStr(file) THEN file.map ELSE EmptyMap

\* load_history
LoadHistory(file) ==
  LET hm == LoadHeatmap(file) IN
  [n \in DOMAIN hm |-> [last_used |-> hm[n].last_used, use_count |-> hm[n].count]]

\* save_heatmap's insert and write: the loaded mapping with one record replaced
HeatmapWithRecord(hm, name, count, t) ==
  [n \in DOMAIN hm \cup {name} |->
     IF n = name THEN [count |-> count, last_used |-> t] ELSE hm[n]]

\* load_applications, lines 169-175: the parsed entries joined with the heatmap
JoinWithHeatmap(files, hm) ==
  LET entries == {ParsedEntries[f] : f \in {g \in files : ~DesktopFile(g).NoDisplay}}
      byName(n) == CHOOSE e \in entries : e.name = n
  IN [n \in {e.name : e \in entries} |->
        IF n \in DOMAIN hm
        THEN [byName(n) EXCEPT !.launch_count = hm[n].count,
                               !.last_used = hm[n].last_used]
        ELSE byName(n)]

\* ------------------------------------------------------------- scoring

\* get_active_window_classes, lines 44 and 48: x11rb::connect(None).unwrap()
\* panics when there is no display to connect to
ProbePanics(probe) == probe = "connect_failed"

\* get_active_window_classes, lines 48-67: the lower-cased classes of the
\* windows of the tree, none when the reply to the tree query is an error
GetActiveWindowClasses(probe, windows) == IF probe = "ok" THEN windows ELSE {}

\* now - entry.last_used on u64, line 280: the subtraction overflows when the
\* record is later than the clock, and a build with overflow checks panics
SubtractOverflows(t, last_used) == last_used > t

\* (now - entry.last_used) as i64: without overflow checks the difference
\* wraps around 2^64, and the cast to i64 makes the wrapped value the signed
\* difference
SecondsSinceUsed(t, last_used) == t - last_used

\* the division of i64, which truncates towards zero
TruncDiv(a, b) == IF a >= 0 THEN a \div b ELSE -((-a) \div b)

\* calculate_bonus_score
CalculateBonusScore(app, file, t, active_windows) ==
  LET history == LoadHistory(file)
      usage == IF app.name \in DOMAIN history
               THEN 10000 - TruncDiv(SecondsSinceUsed(t, history[app.name].last_used), 10)
                    + Min(history[app.name].use_count * 20, 200)
               ELSE Min(app.launch_count * 20, 200)
      icon == IF app.icon_name # GenericIcon THEN BONUS_SCORE_ICON_NAME ELSE 0
      open == IF \E class \in active_windows :
                   \/ Contains(ToLowercase(app.name), class)
                   \/ Contains(ToLowercase(app.exec), class)
              THEN OPEN_WINDOW_PENALTY ELSE 0
  IN usage + icon + open

\* results.sort_unstable_by_key(|item| -item.score)
SortByScoreDesc(results) ==
  SortedArrangements(results, [i \in 1..Len(results) |-> -results[i].score],
                     1..Len(results))

\* the alphabetical sort on the names as written, without to_lowercase
SortByNameCaseSensitive(results) ==
  LET rank == [i \in 1..Len(results) |->
                 Cardinality({j \in 1..Len(results) :
                                /\ StrLeq(results[j].app.name, results[i].app.name)
                                /\ results[j].app.name # results[i].app.name})]
  IN SortedArrangements(results, rank, 1..Len(results))

\* alphabetical_results.sort_by(|a, b| a.app.name.to_lowercase().cmp(..))
SortByNameLower(results) ==
  UNION {SortedArrangements(results,
                            [i \in 1..Len(results) |->
                               Cardinality({j \in 1..Len(results) :
                                              StrLeq(low[j], low[i]) /\ low[j] # low[i]})],
                            1..Len(results)) :
           low \in {[i \in 1..Len(results) |-> ToLowercase(results[i].app.name)]}}

\* -------------------------------------------------- search_applications

\* should_exclude_web_search
ExcludedTerms ==
  { <<"_", "_", "c", "o", "n", "f", "i", "g", "_", "r", "e", "l", "o", "a", "d", "_", "_">>,
    <<"_", "_", "r", "e", "f", "r", "e", "s", "h", "_", "_">> }

\* should_exclude_web_search with "__refresh__" left out of its list
ShouldExcludeOnlyReload(query) ==
  EqIgnoreAsciiCase(query, <<"_", "_", "c", "o", "n", "f", "i", "g", "_", "r", "e",
                             "l", "o", "a", "d", "_", "_">>)

ShouldExcludeWebSearch(query) ==
  \E term \in ExcludedTerms : EqIgnoreAsciiCase(query, term)

WebSearchCategory == <<"W", "e", "b", " ", "S", "e", "a", "r", "c", "h">>
CalculationCategory == <<"C", "a", "l", "c", "u", "l", "a", "t", "i", "o", "n">>

\* the fields every synthetic entry shares
SyntheticEntry(name, description, exec, path, icon, boost, categories, t) ==
  [name |-> name, description |-> description, path |-> path, exec |-> exec,
   icon_name |-> icon, launch_count |-> 0, last_used |-> t,
   entry_type |-> "Application", score_boost |-> boost, keywords |-> <<>>,
   categories |-> categories, terminal |-> FALSE, actions |-> <<>>]

\* create_web_search_entry; prefixes is config.web_search.prefixes
CreateWebSearchEntry(query, prefixes, t) ==
  LET colon_pos == FindChar(query, ":")
      prefix == SubSeq(query, 1, colon_pos - 1)
      search_term == SubSeq(query, colon_pos + 1, Len(query))
      hits == {i \in 1..Len(prefixes) : prefixes[i].prefix = prefix}
      entry(name, url, term) ==
        SyntheticEntry(name, <<"Open in default web browser">>,
                       <<"xdg-open ", "\"", url>> \o PercentEncode(term) \o <<"\"">>,
                       <<>>, "web-browser", 0, <<WebSearchCategory>>, t)
  IN IF colon_pos # 0 /\ hits # {}
     THEN LET p == prefixes[CHOOSE i \in hits : \A j \in hits : i <= j]
          IN [app |-> entry(<<"S", "e", "a", "r", "c", "h", " ", "'">> \o search_term
                              \o <<"'", " ", "o", "n", " ">> \o prefix,
                            p.url, search_term),
              score |-> BONUS_SCORE_WEB_SEARCH]
     ELSE [app |-> entry(<<"S", "e", "a", "r", "c", "h", " ", "'">> \o query
                           \o <<"'", " ", "o", "n", " ", "t", "h", "e", " ", "w", "e", "b">>,
                         "engine-url", query),
           score |-> BONUS_SCORE_WEB_SEARCH]

\* handle_calculation: the evaluator answers a numeric literal with
\* "<literal> (dimensionless)" and fails on anything else; a failure yields "0",
\* and the answer is cut one character before its first "("
HandleCalculation(query) ==
  LET ok == \A i \in 1..Len(query) : IsAsciiDigit(query[i])
      res == IF ok THEN query \o <<" ", "(", "d", ")">> ELSE <<"0">>
      pos == FindChar(res, "(")
  IN IF pos # 0 THEN SubSeq(res, 1, pos - 2) ELSE res

\* create_calc_entry
CreateCalcEntry(query, t) ==
  LET res == HandleCalculation(query) IN
  [app |-> SyntheticEntry(res, <<"Copy to clipboard">>, <<"wl-copy -t text/plain ", "\"">> \o res \o <<"\"">>,
                          <<>>, "calculator", 0, <<CalculationCategory>>, t),
   score |-> BONUS_SCORE_CALC]

\* check_binary: usr_bin is the set of names of the executables of /usr/bin;
\* a sequence holding the result, empty when there is none
CheckBinary(query, usr_bin, t) ==
  LET parts == SplitWhitespace(query) IN
  IF parts = <<>> \/ parts[1] \notin usr_bin THEN <<>>
  ELSE LET bin_path == <<"/usr/bin/">> \o parts[1] IN
       << [app |-> SyntheticEntry(query, <<>>,
                     IF Len(parts) > 1
                     THEN bin_path \o <<" ">> \o JoinSpace(Tail(parts))
                     ELSE bin_path,
                     bin_path, GenericIcon, BONUS_SCORE_BINARY, <<>>, t),
           score |-> BONUS_SCORE_BINARY] >>

RECURSIVE ActionResults(_, _, _, _)
\* lines 168-188: the results of the actions of one entry, in order
ActionResults(app, actions, query, bonus) ==
  IF actions = <<>> THEN <<>>
  ELSE LET action == Head(actions)
           action_app == [app EXCEPT
                            !.name = app.name \o <<" ", "-", " ">> \o action.name,
                            !.exec = action.exec,
                            !.icon_name = IF action.icon_name # NoIcon
                                          THEN action.icon_name ELSE @]
           action_name == ToLowercase(action.name)
           hit == \/ query = <<>>
                  \/ Contains(action_name, ToLowercase(query))
                  \/ FuzzyMatches(action_name, query)
       IN (IF hit THEN <<[app |-> action_app, score |-> bonus - 100]>> ELSE <<>>)
          \o ActionResults(app, Tail(actions), query, bonus)

\* the first string of strs the query fuzzy-matches (lower-cased), 0 when none
FirstFuzzy(strs, query) ==
  LET hits == {i \in 1..Len(strs) : FuzzyMatches(ToLowercase(strs[i]), query)}
  IN IF hits = {} THEN 0 ELSE CHOOSE i \in hits : \A j \in hits : i <= j

\* lines 131-166: the result the name, an exact keyword or an exact category
\* of one entry pushes, a sequence that is empty when there is none
PrimaryResult(app, query, bonus) ==
  LET name_lower == ToLowercase(app.name)
      score ==
        IF EqIgnoreAsciiCase(name_lower, ToLowercase(query))
        THEN <<BONUS_SCORE_BINARY>>
        ELSE IF \E i \in 1..Len(app.keywords) : EqIgnoreAsciiCase(app.keywords[i], query)
        THEN <<BONUS_SCORE_KEYWORD_MATCH>>
        ELSE IF \E i \in 1..Len(app.categories) : EqIgnoreAsciiCase(app.categories[i], query)
        THEN <<BONUS_SCORE_CATEGORY_MATCH>>
        ELSE IF FuzzyMatches(name_lower, query)
        THEN <<FuzzyScore(name_lower, query)>>
        ELSE <<>>
  IN [i \in 1..Len(score) |-> [app |-> app, score |-> score[i] + bonus]]

\* lines 190-216: the keyword loop and the category loop, entered when nothing
\* was added for the entry; each pushes for its first fuzzy match
FallbackResults(app, query, bonus, added) ==
  LET kw == FirstFuzzy(app.keywords, query)
      cat == FirstFuzzy(app.categories, query)
  IN (IF ~added /\ kw # 0
      THEN <<[app |-> app,
              score |-> FuzzyScore(ToLowercase(app.keywords[kw]), query) + bonus]>>
      ELSE <<>>)
     \o (IF ~added /\ cat # 0
         THEN <<[app |-> app,
                 score |-> FuzzyScore(ToLowercase(app.categories[cat]), query) + bonus]>>
         ELSE <<>>)

\* the results of one entry in the order they are pushed, and whether its
\* lower-cased name enters seen_names
EntryResults(primary, acts, fallback) ==
  [results |-> primary \o acts \o fallback,
   seen |-> primary # <<>> \/ fallback # <<>>]

\* lines 120-217, the body of the loop for one entry whose bonus is known
AppResultsWith(app, query, show_actions, bonus, primary) ==
  EntryResults(primary,
               IF show_actions THEN ActionResults(app, app.actions, query, bonus)
               ELSE <<>>,
               FallbackResults(app, query, bonus, primary # <<>>))

\* lines 120-217, the body of the loop for one entry
AppResultsBonus(app, query, show_actions, bonus) ==
  AppResultsWith(app, query, show_actions, bonus, PrimaryResult(app, query, bonus))

AppResults(app, query, show_actions, file, t, active_windows) ==
  AppResultsBonus(app, query, show_actions,
                  CalculateBonusScore(app, file, t, active_windows))

\* lines 116-217: the results of the loop over the catalogue, in the order of
\* names, and seen_names
ScanResults(per, names) ==
  [results |-> Flatten([i \in 1..Len(names) |-> per[names[i]].results]),
   seen_names |-> {ToLowercase(names[i]) : i \in {j \in 1..Len(names) : per[names[j]].seen}}]

ScanCatalogue(query, cfg, cache, file, t, active_windows) ==
  ScanResults([n \in DOMAIN cache |->
                 AppResults(cache[n], query, cfg.show_actions, file, t, active_windows)],
              SetToSeq(DOMAIN cache))

\* lines 219-224: check_binary, unless the query is the name of a scanned entry
WithBinary(scan, query, usr_bin, t) ==
  IF ToLowercase(query) \notin scan.seen_names
  THEN scan.results \o CheckBinary(query, usr_bin, t) ELSE scan.results

\* line 226: the condition of the first web-search site
WebSearchSite1(query, cfg, results) ==
  results = <<>> /\ cfg.web_enabled /\ ~ShouldExcludeWebSearch(query)

\* lines 226-237: the web-search entry, else the calculation entry, when
\* nothing was found
WithFallbacks(query, cfg, results, t) ==
  IF WebSearchSite1(query, cfg, results)
  THEN <<CreateWebSearchEntry(query, cfg.prefixes, t)>>
  ELSE IF results = <<>> /\ cfg.calculator /\ IsAsciiDigit(query[1])
  THEN <<CreateCalcEntry(query, t)>>
  ELSE results

\* the results before the sort, those of the scan alone, and whether the
\* first web-search site pushed
CandidatesOf(scan, with_bin, query, cfg, t) ==
  [list |-> WithFallbacks(query, cfg, with_bin, t),
   scanned |-> scan.results,
   site1 |-> WebSearchSite1(query, cfg, with_bin)]

CandidatesOfScan(scan, query, cfg, t, usr_bin) ==
  CandidatesOf(scan, WithBinary(scan, query, usr_bin, t), query, cfg, t)

\* lines 116-237: the results of a non-empty query before the sort
FuzzyCandidates(query, cfg, cache, file, t, active_windows, usr_bin) ==
  CandidatesOfScan(ScanCatalogue(query, cfg, cache, file, t, active_windows),
                   query, cfg, t, usr_bin)

\* lines 86-114: what browse mode can return from the results of the scan,
\* heat those of the names history holds and alpha the others
BrowseResults(heat, alpha, max_results) ==
  {Truncate(h \o a, max_results) :
     h \in SortByScoreDesc(SetToSeq(heat)), a \in SortByNameLower(SetToSeq(alpha))}

\* lines 91-104 for the whole catalogue
BrowseScan(cache, file, t, active_windows) ==
  LET history == LoadHistory(file)
      apps == {n \in DOMAIN cache :
                 cache[n].path # <<>> /\ cache[n].path[Len(cache[n].path)] = ".desktop"}
      result(n) == [app |-> cache[n],
                    score |-> CalculateBonusScore(cache[n], file, t, active_windows)]
  IN [heat |-> {result(n) : n \in {m \in apps : m \in DOMAIN history}},
      alpha |-> {result(n) : n \in {m \in apps : m \notin DOMAIN history}}]

\* the first stage without its sort
FirstStageUnsorted(list, max_results) == {Truncate(list, max_results)}

\* lines 239-244
FirstStage(list, max_results) ==
  {Truncate(s, max_results) : s \in SortByScoreDesc(list)}

\* the second web-search site without its look for an entry of category
\* "Web Search" among the results
WebSearchSite2Unchecked(query, cfg, results) ==
  /\ cfg.web_enabled
  /\ query # <<>>
  /\ ~ShouldExcludeWebSearch(query)

\* lines 248-260: the second web-search site
WebSearchSite2(query, cfg, results) ==
  /\ cfg.web_enabled
  /\ query # <<>>
  /\ ~ShouldExcludeWebSearch(query)
  /\ ~\E i \in 1..Len(results) :
        \E c \in 1..Len(results[i].app.categories) :
          results[i].app.categories[c] = WebSearchCategory

\* the second stage without the truncation of line 259
SecondStageNoTruncate(query, cfg, results, t) ==
  IF WebSearchSite2(query, cfg, results)
  THEN SortByScoreDesc(Append(results, CreateWebSearchEntry(query, cfg.prefixes, t)))
  ELSE {results}

\* lines 248-260: the entry is pushed, and the list sorted and truncated again
SecondStage(query, cfg, results, t) ==
  IF WebSearchSite2(query, cfg, results)
  THEN {Truncate(s, cfg.max_entries) :
          s \in SortByScoreDesc(Append(results, CreateWebSearchEntry(query, cfg.prefixes, t)))}
  ELSE {results}

\* lines 246-265: the replies that follow from the result lists firsts of the
\* first sort
RepliesOf(query, cfg, firsts, site1, t) ==
  UNION {{[results |-> r, site1 |-> site1,
           site2 |-> WebSearchSite2(query, cfg, f)] :
            r \in SecondStage(query, cfg, f, t)} : f \in firsts}

BrowseReplies(scan, query, cfg, t) ==
  RepliesOf(query, cfg, BrowseResults(scan.heat, scan.alpha, cfg.max_entries), FALSE, t)

FuzzyReplies(cand, query, cfg, t) ==
  RepliesOf(query, cfg, FirstStage(cand.list, cfg.max_entries), cand.site1, t)

\* search_applications on an unchanging catalogue, heatmap and clock: every
\* reply it can send, with the web-search sites that pushed
SearchApplications(query, cfg, cache, file, t, active_windows, usr_bin) ==
  IF query = <<>>
  THEN BrowseReplies(BrowseScan(cache, file, t, active_windows), query, cfg, t)
  ELSE FuzzyReplies(FuzzyCandidates(query, cfg, cache, file, t, active_windows, usr_bin),
                    query, cfg, t)

\* calculate_bonus_score is called for every result made of an entry of the
\* catalogue (lines 94, 128-210), and for no other
BonusScoreCalled(query, cfg, cache) ==
  IF query = <<>>
  THEN \E n \in DOMAIN cache :
         cache[n].path # <<>> /\ cache[n].path[Len(cache[n].path)] = ".desktop"
  ELSE ScanCatalogue(query, cfg, cache, MissingFile, 0, {}).results # <<>>

\* the names calculate_bonus_score looks up in the history: those of the
\* results made of entries of the catalogue
ScoredNames(query, cfg, cache) ==
  IF query = <<>>
  THEN {cache[n].name : n \in {m \in DOMAIN cache :
          cache[m].path # <<>> /\ cache[m].path[Len(cache[m].path)] = ".desktop"}}
  ELSE UNION {{r[i].app.name : i \in 1..Len(r)} :
                r \in {ScanCatalogue(query, cfg, cache, MissingFile, 0, {}).results}}

\* some call of calculate_bonus_score subtracts a later last_used from now
ScoringOverflows(query, cfg, cache, file, t) ==
  \E n \in ScoredNames(query, cfg, cache) \cap DOMAIN LoadHistory(file) :
    SubtractOverflows(t, LoadHistory(file)[n].last_used)

\* ------------------------------------------------------------ search_dmenu

\* search_dmenu: every reply it can send
SearchDmenu(query_in, lines, cfg) ==
  LET query == IF cfg.case_sensitive THEN query_in ELSE ToLowercase(query_in)
      compare_line(l) == IF cfg.case_sensitive THEN l ELSE ToLowercase(l)
      hits == SelectSeq(lines, LAMBDA l : FuzzyMatches(compare_line(l), query))
      matched == [i \in 1..Len(hits) |->
                    [line |-> hits[i], score |-> FuzzyScore(compare_line(hits[i]), query)]]
      results == IF matched = <<>> /\ cfg.allow_invalid
                 THEN <<[line |-> query, score |-> 0]>> ELSE matched
  IN {[i \in 1..Len(Truncate(s, cfg.max_entries)) |-> s[i].line] :
        s \in SortByScoreDesc(results)}

\* =================================================================== state

VARIABLES
  files,      \* the desktop files present in the scan directories
  heatfile,   \* the heatmap file: [status, map]
  now,        \* the system clock, in seconds
  cache,      \* APP_CACHE: name -> AppEntry
  lock,       \* the RwLock of APP_CACHE: [readers, writer, queue]
  search,     \* the blocking task of each search_applications call
  launch,     \* the thread of each increment_launch_count call
  reload,     \* the load_applications task
  store,      \* app_data_store of the window: the entries of the rows shown
  window,     \* "open" or "closed"
  counters,   \* launch events and completed heatmap writes so far
  call,       \* a search call on fixed inputs: its arguments and environment
  reply       \* the reply to that call

vars == <<files, heatfile, now, cache, lock, search, launch, reload, store,
          window, counters, call, reply>>

Searchers == {1, 2}
Threads == 1..MaxLaunches

\* the scan directories at start-up, and after an application was removed
\* and another installed
FilesAtStart == {"ab", "abc"}
FilesAfterChange == {"ab", "b"}

NameOf(f) == DesktopFile(f).Name
AllNames == {NameOf(f) : f \in DesktopFiles}

\* the configuration the concurrent specification runs under
DefaultConfig ==
  [max_entries |-> 50, web_enabled |-> FALSE, calculator |-> FALSE,
   show_actions |-> FALSE, prefixes |-> <<>>, allow_invalid |-> FALSE,
   case_sensitive |-> FALSE]

IdleSearch ==
  [pc |-> "idle", known |-> {}, seen |-> {}, heat |-> {}, alpha |-> {}, results |-> <<>>]
NoThread == [pc |-> "none", app_name |-> <<>>, count |-> 0, now |-> 0, heatmap |-> EmptyMap]
IdleReload == [pc |-> "idle", heatmap |-> EmptyMap, apps |-> EmptyMap]
NoCall == [fn |-> "none"]
NoReply == [done |-> FALSE]

\* ------------------------------------------------------------ the RwLock

\* the waiters of the lock
SearchTask(s) == <<"search", s>>
LaunchThread(t) == <<"launch", t>>
ReloadTask == <<"reload">>

\* a lock that serves its waiters in any order
IsWaiting(l, w) == \E i \in 1..Len(l.queue) : l.queue[i] = w

\* tokio::sync::RwLock is fair: the tasks that await the lock are served
\* first in, first out
IsNext(l, w) == l.queue # <<>> /\ Head(l.queue) = w

\* a task starts to await the lock, and stops when the lock is granted
Enqueue(l, w) == [l EXCEPT !.queue = Append(@, w)]
Dequeue(l, w) == [l EXCEPT !.queue = SelectSeq(@, LAMBDA x : x # w)]

\* a lock that grants read access beside a writer
CanReadBesideWriter(l) == TRUE

\* a lock that grants write access beside readers
CanWriteBesideReaders(l) == ~l.writer

\* RwLock::blocking_read is granted when no writer holds the lock
CanRead(l) == ~l.writer

\* a lock that grants write access beside another writer
CanWriteBesideWriter(l) == l.readers = 0

\* RwLock::blocking_write / write().await is granted when nobody holds it
CanWrite(l) == ~l.writer /\ l.readers = 0

\* ---------------------------------------------------- search_applications

\* app.path.ends_with(".desktop")
IsDesktopPath(app) == app.path # <<>> /\ app.path[Len(app.path)] = ".desktop"

\* lines 74-82: the call queues its blocking task (the lowest free one)
SearchCall(s) ==
  /\ window = "open"
  /\ search[s].pc = "idle"
  /\ \A r \in Searchers : r < s => search[r].pc # "idle"
  /\ search' = [search EXCEPT ![s] = [IdleSearch EXCEPT !.pc = "lock"]]
  /\ UNCHANGED <<files, heatfile, now, cache, lock, launch, reload, store, window,
                 counters, call, reply>>

\* line 83: the blocking task runs and calls APP_CACHE.blocking_read()
SearchArrive(s) ==
  /\ search[s].pc = "lock"
  /\ lock' = Enqueue(lock, SearchTask(s))
  /\ search' = [search EXCEPT ![s].pc = "queued"]
  /\ UNCHANGED <<files, heatfile, now, cache, launch, reload, store, window,
                 counters, call, reply>>

\* lines 83-87: the read guard is held, then let history = load_history()
SearchGuard(s, l) ==
  /\ lock' = [l EXCEPT !.readers = @ + 1]
  /\ search' = [search EXCEPT ![s].pc = "scan",
                              ![s].known = DOMAIN LoadHistory(heatfile)]
  /\ UNCHANGED <<files, heatfile, now, cache, launch, reload, store, window,
                 counters, call, reply>>

\* line 83, the order of the waiters left open: the blocking task runs and
\* APP_CACHE.blocking_read() returns when no writer holds the lock
SearchAcquire(s) ==
  /\ search[s].pc = "lock"
  /\ CanRead(lock)
  /\ SearchGuard(s, lock)

\* line 83, the waiter first in the queue is granted the read guard
SearchGranted(s) ==
  /\ search[s].pc = "queued"
  /\ IsNext(lock, SearchTask(s))
  /\ CanRead(lock)
  /\ SearchGuard(s, Dequeue(lock, SearchTask(s)))

\* lines 91-104, one iteration: the entry is scored against the heatmap file
\* and the clock as they are now, and filed by the history loaded at line 87
SearchScan(s) ==
  /\ search[s].pc = "scan"
  /\ \E n \in DOMAIN cache \ search[s].seen :
       LET result == [app |-> cache[n],
                      score |-> CalculateBonusScore(cache[n], heatfile, now, {})]
           kept == IsDesktopPath(cache[n])
       IN search' = [search EXCEPT
                       ![s].seen = @ \cup {n},
                       ![s].heat = IF kept /\ n \in search[s].known
                                   THEN @ \cup {result} ELSE @,
                       ![s].alpha = IF kept /\ n \notin search[s].known
                                    THEN @ \cup {result} ELSE @]
  /\ UNCHANGED <<files, heatfile, now, cache, lock, launch, reload, store, window,
                 counters, call, reply>>

\* lines 106-113: the two sorts, the concatenation and the truncation
SearchSort(s) ==
  /\ search[s].pc = "scan"
  /\ DOMAIN cache \ search[s].seen = {}
  /\ \E r \in BrowseResults(search[s].heat, search[s].alpha, DefaultConfig.max_entries) :
       search' = [search EXCEPT ![s].pc = "send", ![s].results = r]
  /\ UNCHANGED <<files, heatfile, now, cache, lock, launch, reload, store, window,
                 counters, call, reply>>

\* lines 262-266 and ui.rs 211-212: the reply is sent, the read guard dropped,
\* and update_results_list stores the entries of the reply
SearchSend(s) ==
  /\ search[s].pc = "send"
  /\ lock' = [lock EXCEPT !.readers = @ - 1]
  /\ store' = IF window = "open"
              THEN [i \in 1..Len(search[s].results) |-> search[s].results[i].app]
              ELSE store
  /\ search' = [search EXCEPT ![s] = IdleSearch]
  /\ UNCHANGED <<files, heatfile, now, cache, launch, reload, window,
                 counters, call, reply>>

\* ------------------------------------------------- increment_launch_count

FreeThreads == {t \in Threads : launch[t].pc = "none"}

\* a call that runs the closure of the thread itself: it returns when the
\* write lock could be taken
ThreadJoined(l) == CanWrite(l)

\* std::thread::spawn, line 73: the closure, which takes the lock and writes
\* the file, runs on the new thread; the caller goes on to line 82 whatever
\* the state of the lock
ThreadSpawned(l) == TRUE

\* ui.rs 290-296 and 431-449, launcher.rs 65-73 and 82: a row of the window is
\* activated; the count is taken from the entry of the row, the thread is
\* spawned, and the window closes when the command could be spawned
LaunchCall ==
  /\ window = "open"
  /\ counters.launches < MaxLaunches
  /\ FreeThreads # {}
  /\ ThreadSpawned(lock)
  /\ \E i \in 1..Len(store), spawned \in BOOLEAN :
       LET app == store[i]
           t == CHOOSE u \in FreeThreads : \A v \in FreeThreads : u <= v
       IN /\ app.entry_type = "Application"
          /\ launch' = [launch EXCEPT ![t] =
                          [pc |-> "wait", app_name |-> app.name,
                           count |-> app.launch_count + 1, now |-> now,
                           heatmap |-> EmptyMap]]
          /\ window' = IF spawned THEN "closed" ELSE "open"
  /\ counters' = [counters EXCEPT !.launches = @ + 1]
  /\ UNCHANGED <<files, heatfile, now, cache, lock, search, reload, store, call, reply>>

\* an update that writes the count and the time into every entry
CacheAfterLaunchAll(c, app_name, count, t) ==
  [n \in DOMAIN c |-> [c[n] EXCEPT !.launch_count = count, !.last_used = t]]

\* lines 75-78: the entry of the catalogue keyed app_name, updated in place
CacheAfterLaunch(c, app_name, count, t) ==
  IF app_name \in DOMAIN c
  THEN [c EXCEPT ![app_name].launch_count = count, ![app_name].last_used = t]
  ELSE c

\* line 74: the thread runs and calls APP_CACHE.blocking_write()
LaunchArrive(t) ==
  /\ launch[t].pc = "wait"
  /\ lock' = Enqueue(lock, LaunchThread(t))
  /\ launch' = [launch EXCEPT ![t].pc = "queued"]
  /\ UNCHANGED <<files, heatfile, now, cache, search, reload, store, window, counters,
                 call, reply>>

\* lines 74-78: the write guard is held, then the update of the entry
LaunchGuard(t, l) ==
  /\ lock' = [l EXCEPT !.writer = TRUE]
  /\ cache' = CacheAfterLaunch(cache, launch[t].app_name, launch[t].count, launch[t].now)
  /\ launch' = [launch EXCEPT ![t].pc = "save"]
  /\ UNCHANGED <<files, heatfile, now, search, reload, store, window, counters,
                 call, reply>>

\* line 74, the order of the waiters left open: the thread runs and
\* APP_CACHE.blocking_write() returns when nobody holds the lock
LaunchAcquire(t) ==
  /\ launch[t].pc = "wait"
  /\ CanWrite(lock)
  /\ LaunchGuard(t, lock)

\* line 74, the waiter first in the queue is granted the write guard
LaunchGranted(t) ==
  /\ launch[t].pc = "queued"
  /\ IsNext(lock, LaunchThread(t))
  /\ CanWrite(lock)
  /\ LaunchGuard(t, Dequeue(lock, LaunchThread(t)))

\* save_heatmap, line 93: the heatmap is loaded
LaunchLoad(t) ==
  /\ launch[t].pc = "save"
  /\ launch' = [launch EXCEPT ![t].pc = "write", ![t].heatmap = LoadHeatmap(heatfile)]
  /\ UNCHANGED <<files, heatfile, now, cache, lock, search, reload, store, window,
                 counters, call, reply>>

\* save_heatmap, lines 94-111, and the end of the thread: the record is
\* inserted, the file rewritten and the write guard dropped
LaunchWrite(t) ==
  /\ launch[t].pc = "write"
  /\ heatfile' = WrittenFile(HeatmapWithRecord(launch[t].heatmap, launch[t].app_name,
                                               launch[t].count, now))
  /\ lock' = [lock EXCEPT !.writer = FALSE]
  /\ launch' = [launch EXCEPT ![t] = NoThread]
  /\ counters' = [counters EXCEPT !.completed[launch[t].app_name] = @ + 1]
  /\ UNCHANGED <<files, now, cache, search, reload, store, window, call, reply>>

\* ------------------------------------------------------ load_applications

\* line 144: a reload, requested because the scan directories changed, starts
\* by loading the heatmap
ReloadCall ==
  /\ window = "open"
  /\ reload.pc = "idle"
  /\ DOMAIN cache # {NameOf(f) : f \in files}
  /\ reload' = [reload EXCEPT !.pc = "scan", !.heatmap = LoadHeatmap(heatfile)]
  /\ UNCHANGED <<files, heatfile, now, cache, lock, search, launch, store, window,
                 counters, call, reply>>

\* lines 145-175: the scan directories are parsed and joined with that heatmap
ReloadScan ==
  /\ reload.pc = "scan"
  /\ reload' = [reload EXCEPT !.pc = "wait", !.apps = JoinWithHeatmap(files, reload.heatmap)]
  /\ UNCHANGED <<files, heatfile, now, cache, lock, search, launch, store, window,
                 counters, call, reply>>

\* line 178: the task calls APP_CACHE.write() and awaits it
ReloadArrive ==
  /\ reload.pc = "wait"
  /\ lock' = Enqueue(lock, ReloadTask)
  /\ reload' = [reload EXCEPT !.pc = "queued"]
  /\ UNCHANGED <<files, heatfile, now, cache, search, launch, store, window, counters,
                 call, reply>>

\* line 178: the write guard is held
ReloadGuard(l) ==
  /\ lock' = [l EXCEPT !.writer = TRUE]
  /\ reload' = [reload EXCEPT !.pc = "swap"]
  /\ UNCHANGED <<files, heatfile, now, cache, search, launch, store, window, counters,
                 call, reply>>

\* line 178, the order of the waiters left open: APP_CACHE.write().await
\* returns when nobody holds the lock
ReloadAcquire ==
  /\ reload.pc = "wait"
  /\ CanWrite(lock)
  /\ ReloadGuard(lock)

\* line 178, the waiter first in the queue is granted the write guard
ReloadGranted ==
  /\ reload.pc = "queued"
  /\ IsNext(lock, ReloadTask)
  /\ CanWrite(lock)
  /\ ReloadGuard(Dequeue(lock, ReloadTask))

\* line 179: *cache = apps
ReplaceCache(old, apps) == apps

\* lines 179-181: the catalogue is replaced and the write guard dropped
ReloadSwap ==
  /\ reload.pc = "swap"
  /\ cache' = ReplaceCache(cache, reload.apps)
  /\ lock' = [lock EXCEPT !.writer = FALSE]
  /\ reload' = IdleReload
  /\ UNCHANGED <<files, heatfile, now, search, launch, store, window, counters,
                 call, reply>>

\* ------------------------------------------------------------ environment

\* app.rs 105-109 and main.rs 59-60: the process ended when its window closed
\* (its threads with it) and is started again: the catalogue is loaded from
\* the scan directories and the heatmap
Restart ==
  /\ window = "closed"
  /\ cache' = JoinWithHeatmap(files, LoadHeatmap(heatfile))
  /\ lock' = [readers |-> 0, writer |-> FALSE, queue |-> <<>>]
  /\ search' = [s \in Searchers |-> IdleSearch]
  /\ launch' = [t \in Threads |-> NoThread]
  /\ reload' = IdleReload
  /\ store' = <<>>
  /\ window' = "open"
  /\ UNCHANGED <<files, heatfile, now, counters, call, reply>>

\* an application is installed or removed
FilesChange ==
  /\ files = FilesAtStart
  /\ files' = FilesAfterChange
  /\ UNCHANGED <<heatfile, now, cache, lock, search, launch, reload, store, window,
                 counters, call, reply>>

\* time passes
Tick ==
  /\ now < MaxTicks * ClockStep
  /\ now' = now + ClockStep
  /\ UNCHANGED <<files, heatfile, cache, lock, search, launch, reload, store, window,
                 counters, call, reply>>

\* the state after App::new: the catalogue loaded, no heatmap file yet
Init ==
  /\ files = FilesAtStart
  /\ heatfile = MissingFile
  /\ now = 0
  /\ cache = JoinWithHeatmap(files, LoadHeatmap(heatfile))
  /\ lock = [readers |-> 0, writer |-> FALSE, queue |-> <<>>]
  /\ search = [s \in Searchers |-> IdleSearch]
  /\ launch = [t \in Threads |-> NoThread]
  /\ reload = IdleReload
  /\ store = <<>>
  /\ window = "open"
  /\ counters = [launches |-> 0, completed |-> [n \in AllNames |-> 0]]
  /\ call = NoCall
  /\ reply = NoReply

\* the program as it runs: one search at a time (the window awaits each reply
\* before it sends the next query), launches, the clock, and restarts, which
\* are the only callers of load_applications
\* ui.rs 157 and 211: the interactive thread sits in rt.block_on from the
\* call of search_applications until its reply is there
UiIdle == \A s \in Searchers : search[s].pc = "idle"

\* ui.rs 204-214: the text of the entry changed, and the interactive thread
\* runs the handler that calls search_applications
Keystroke == UiIdle /\ SearchCall(1)

\* ui.rs 290-296: a row is activated, and the interactive thread runs the
\* handler that launches its entry
RowActivated == UiIdle /\ LaunchCall

Next ==
  \/ Keystroke
  \/ SearchAcquire(1)
  \/ SearchScan(1)
  \/ SearchSort(1)
  \/ SearchSend(1)
  \/ RowActivated
  \/ \E t \in Threads : LaunchAcquire(t)
  \/ \E t \in Threads : LaunchLoad(t)
  \/ \E t \in Threads : LaunchWrite(t)
  \/ Restart
  \/ FilesChange
  \/ Tick

Spec == Init /\ [][Next]_vars

\* concurrent callers of search_applications, with launches and with a reload
\* requested while the window is open, over one life of the process and with
\* the clock standing still
NextReaders ==
  \/ \E s \in Searchers : SearchCall(s)
  \/ \E s \in Searchers : SearchAcquire(s)
  \/ \E s \in Searchers : SearchScan(s)
  \/ \E s \in Searchers : SearchSort(s)
  \/ \E s \in Searchers : SearchSend(s)
  \/ LaunchCall
  \/ \E t \in Threads : LaunchAcquire(t)
  \/ \E t \in Threads : LaunchLoad(t)
  \/ \E t \in Threads : LaunchWrite(t)
  \/ ReloadCall
  \/ ReloadScan
  \/ ReloadAcquire
  \/ ReloadSwap
  \/ FilesChange

SpecReaders == Init /\ [][NextReaders]_vars

\* the launches in the runs with the queue of the lock
MaxFairLaunches == 1

FairLaunchCall == counters.launches < MaxFairLaunches /\ LaunchCall

\* the concurrent callers with the queue of the lock: every task that reaches
\* the lock joins the queue and is granted the lock when it is first in it
NextFair ==
  \/ \E s \in Searchers : SearchCall(s)
  \/ \E s \in Searchers : SearchArrive(s)
  \/ \E s \in Searchers : SearchGranted(s)
  \/ \E s \in Searchers : SearchScan(s)
  \/ \E s \in Searchers : SearchSort(s)
  \/ \E s \in Searchers : SearchSend(s)
  \/ FairLaunchCall
  \/ \E t \in Threads : LaunchArrive(t)
  \/ \E t \in Threads : LaunchGranted(t)
  \/ \E t \in Threads : LaunchLoad(t)
  \/ \E t \in Threads : LaunchWrite(t)
  \/ ReloadCall
  \/ ReloadScan
  \/ ReloadArrive
  \/ ReloadGranted
  \/ ReloadSwap
  \/ FilesChange

\* the steps of the blocking tasks, of the launch threads and of the reload
\* task: the thread pool and the operating system run every task that can run
SearchSteps(s) ==
  SearchArrive(s) \/ SearchGranted(s) \/ SearchScan(s) \/ SearchSort(s) \/ SearchSend(s)
LaunchSteps(t) ==
  LaunchArrive(t) \/ LaunchGranted(t) \/ LaunchLoad(t) \/ LaunchWrite(t)
ReloadSteps ==
  ReloadScan \/ ReloadArrive \/ ReloadGranted \/ ReloadSwap

\* fair scheduling: a task that can take a step is not passed over forever;
\* the calls (keystrokes, activations of rows, changes of the directories) are
\* under no obligation
Fairness ==
  /\ \A s \in Searchers : WF_vars(SearchSteps(s))
  /\ \A t \in Threads : WF_vars(LaunchSteps(t))
  /\ WF_vars(ReloadSteps)

SpecFair == Init /\ [][NextFair]_vars /\ Fairness

\* ------------------------------------------ one call on fixed inputs

Q_ab == <<"a", "b">>
Q_refresh == <<"_", "_", "R", "e", "f", "r", "e", "s", "h", "_", "_">>

\* the queries of the calls: empty, an exact name in both cases, a keyword
\* prefix, a digit, "~", "/", an action name, a prefixed query, one that
\* matches nothing, and the reserved tokens
Queries ==
  { <<>>, Q_ab, <<"A", "B">>, <<"x">>, <<"1">>, <<"~">>, <<"/">>, <<"n">>,
    <<"g", ":", "a">>, <<"d">>, Q_refresh } \cup ExcludedTerms

Configs ==
  [max_entries : 0..MaxEntriesBound, web_enabled : BOOLEAN, calculator : BOOLEAN,
   show_actions : BOOLEAN,
   prefixes : {<< [prefix |-> <<"g">>, url |-> "g-url"] >>},
   allow_invalid : {FALSE}, case_sensitive : {FALSE}]

DmenuConfigs ==
  [max_entries : 0..MaxEntriesBound, web_enabled : {FALSE}, calculator : {FALSE},
   show_actions : {FALSE}, prefixes : {<<>>},
   allow_invalid : BOOLEAN, case_sensitive : BOOLEAN]

DmenuLines ==
  { <<>>, << <<"a", "b">> >>, << <<"A", "B", "c">> >>,
    << <<"a", "b">>, <<"A", "B", "c">>, <<"b">> >> }

DmenuQueries == { <<>>, <<"a", "b">>, <<"A", "b">>, <<"x">>, <<"c">> }

\* use count and age of a record of an entry launched often: the count lies
\* beyond the cap of the usage bonus, the age is not a multiple of ten seconds
OftenUsedCount == 11
OftenUsedAge == 15

\* seconds by which the records of a heatmap written under a clock that was
\* set back since are later than the clock
ClockAhead == 2005

\* seconds since the last use of an entry that was not launched for more
\* than two days
LongUnusedAge == 200000

\* the heatmaps of the calls: a record, one launch old, for any set of names,
\* and for all the names records of often launched entries, records later
\* than the clock, and records of entries not launched for long
Heatmaps(names, t) ==
  {[n \in S |-> [count |-> 1, last_used |-> t - ClockStep]] : S \in SUBSET names}
    \cup {[n \in names |-> [count |-> OftenUsedCount, last_used |-> t - OftenUsedAge]]}
    \cup {[n \in names |-> [count |-> 1, last_used |-> t + ClockAhead]]}
    \cup {[n \in names |-> [count |-> 1, last_used |-> t - LongUnusedAge]]}

\* the heatmap files of the calls: none, one that holds such a heatmap, one
\* that cannot be read and one cut off in the middle of its contents
HeatmapFiles(names, t) ==
  {MissingFile}
    \cup {WrittenFile(hm) : hm \in Heatmaps(names, t) \ {EmptyMap}}
    \cup {[status |-> st, map |-> [n \in names |-> [count |-> 1, last_used |-> t - ClockStep]]] :
            st \in {"unreadable", "invalid"}}

\* the calls of search_applications; active_windows are the classes of the
\* windows that are open, probe the outcome of the probe for them: it works,
\* the tree query is sent and its reply fails, or there is no display to
\* connect to (and so no window)
SearchCalls ==
  {c \in [fn : {"search"}, query : Queries, cfg : Configs, lines : {<<>>},
          active_windows : {{}, {<<"a", "b", "c">>}},
          probe : {"ok", "reply_failed", "connect_failed"},
          usr_bin : {{}, {<<"x">>, <<"a", "b">>}}] :
     \/ c.probe = "ok"
     \/ c.probe = "reply_failed" /\ c.active_windows # {} /\ c.usr_bin = {}
     \/ c.probe = "connect_failed" /\ c.active_windows = {} /\ c.usr_bin = {}}

DmenuCalls ==
  [fn : {"dmenu"}, query : DmenuQueries, cfg : DmenuConfigs, lines : DmenuLines,
   active_windows : {{}}, probe : {"ok"}, usr_bin : {{}}]

\* a catalogue loaded from any set of desktop files and any heatmap, and one
\* call of search_applications or of search_dmenu
InitCall ==
  /\ now = LongUnusedAge + 10 * ClockStep
  /\ \/ /\ call \in SearchCalls
        /\ files \in SUBSET DesktopFiles
        /\ heatfile \in HeatmapFiles({NameOf(f) : f \in files}, now)
     \/ /\ call \in DmenuCalls
        /\ files = FilesAtStart
        /\ heatfile = MissingFile
  /\ cache = JoinWithHeatmap(files, LoadHeatmap(heatfile))
  /\ lock = [readers |-> 0, writer |-> FALSE, queue |-> <<>>]
  /\ search = [s \in Searchers |-> IdleSearch]
  /\ launch = [t \in Threads |-> NoThread]
  /\ reload = IdleReload
  /\ store = <<>>
  /\ window = "open"
  /\ counters = [launches |-> 0, completed |-> [n \in AllNames |-> 0]]
  /\ reply = NoReply

\* search.rs 70-268: the call runs to its reply, or the blocking task panics
\* in the probe, or, built with overflow checks, in the subtraction of line
\* 280, drops tx, and rx.await yields the error of lines 266-267
ReplySearch ==
  /\ call.fn = "search"
  /\ ~reply.done
  /\ IF ProbePanics(call.probe) /\ BonusScoreCalled(call.query, call.cfg, cache)
     THEN reply' = [done |-> TRUE, error |-> TRUE, results |-> <<>>, site1 |-> FALSE,
                    site2 |-> FALSE, lines |-> <<>>]
     ELSE \/ /\ ScoringOverflows(call.query, call.cfg, cache, heatfile, now)
              /\ reply' = [done |-> TRUE, error |-> TRUE, results |-> <<>>,
                           site1 |-> FALSE, site2 |-> FALSE, lines |-> <<>>]
          \/ \E r \in SearchApplications(call.query, call.cfg, cache, heatfile, now,
                          GetActiveWindowClasses(call.probe, call.active_windows),
                          call.usr_bin) :
               reply' = [done |-> TRUE, error |-> FALSE, results |-> r.results,
                         site1 |-> r.site1, site2 |-> r.site2, lines |-> <<>>]
  /\ UNCHANGED <<files, heatfile, now, cache, lock, search, launch, reload, store,
                 window, counters, call>>

\* search.rs 342-386
ReplyDmenu ==
  /\ call.fn = "dmenu"
  /\ ~reply.done
  /\ \E r \in SearchDmenu(call.query, call.lines, call.cfg) :
       reply' = [done |-> TRUE, error |-> FALSE, results |-> <<>>, site1 |-> FALSE,
                 site2 |-> FALSE, lines |-> r]
  /\ UNCHANGED <<files, heatfile, now, cache, lock, search, launch, reload, store,
                 window, counters, call>>

NextCall == ReplySearch \/ ReplyDmenu

SpecCall == InitCall /\ [][NextCall]_vars

\* ================================================================ properties

\* C1: the sequence search_applications returns is never longer than
\* max_entries, whatever the query, the catalogue, the heatmap and the
\* configuration, and neither is the sequence search_dmenu returns
C1_LengthWithinMaxEntries ==
  reply.done => /\ Len(reply.results) <= call.cfg.max_entries
                /\ Len(reply.lines) <= call.cfg.max_entries

\* a reply whose web-search entry was pushed after the first truncation, on a
\* catalogue with more matches than max_entries
C1_TruncatedAfterWebEntry ==
  /\ reply.done
  /\ call.fn = "search"
  /\ call.query = Q_ab
  /\ reply.site2
  /\ call.cfg.max_entries >= 1
  /\ Cardinality(DOMAIN cache) > call.cfg.max_entries
  /\ Len(reply.results) = call.cfg.max_entries

\* C2: the list a browse search is about to send holds the entries with a
\* usage record before those without, the first in non-increasing score order
\* and the others in case-insensitive alphabetical order of name, and every
\* score is the bonus of its entry under the heatmap that decides the
\* partition, launches in flight or not
C2_BrowseOrder ==
  \A s \in Searchers :
    search[s].pc = "send" =>
      LET r == search[s].results
          known(i) == r[i].app.name \in DOMAIN LoadHistory(heatfile)
      IN /\ \A i, j \in 1..Len(r) :
              i < j =>
                /\ known(j) => known(i)
                /\ known(i) /\ known(j) => r[i].score >= r[j].score
                /\ ~known(i) /\ ~known(j) =>
                     StrLeq(ToLowercase(r[i].app.name), ToLowercase(r[j].app.name))
         /\ \A i \in 1..Len(r) :
              \E k \in 0..MaxTicks :
                r[i].score = CalculateBonusScore(r[i].app, heatfile, k * ClockStep, {})

\* a browse list with a recorded and an unrecorded entry, about to be sent
\* while a launch waits for the catalogue
C2_SendDuringLaunch ==
  \E s \in Searchers, t \in Threads :
    /\ search[s].pc = "send"
    /\ launch[t].pc = "wait"
    /\ \E i, j \in 1..Len(search[s].results) :
         /\ search[s].results[i].app.name \in DOMAIN LoadHistory(heatfile)
         /\ search[s].results[j].app.name \notin DOMAIN LoadHistory(heatfile)

\* C3: when the query is, up to case, the name of an entry E that the reply
\* holds, E scores the exact-match bonus plus its bonus score and stands
\* before every result of an entry matched by subsequence only
C3_ExactNameRanksFirst ==
  (reply.done /\ call.fn = "search" /\ call.query # <<>>) =>
    \A e \in 1..Len(reply.results) :
      LET E == reply.results[e].app IN
      (E.name \in DOMAIN cache /\ E = cache[E.name]
         /\ EqIgnoreAsciiCase(E.name, call.query)) =>
        /\ reply.results[e].score
             = BONUS_SCORE_BINARY
               + CalculateBonusScore(E, heatfile, now, GetActiveWindowClasses(call.probe, call.active_windows))
        /\ \A f \in 1..Len(reply.results) :
             LET F == reply.results[f].app IN
             (/\ F.name \in DOMAIN cache
              /\ F = cache[F.name]
              /\ ~EqIgnoreAsciiCase(F.name, call.query)
              /\ \A i \in 1..Len(F.keywords) : ~EqIgnoreAsciiCase(F.keywords[i], call.query)
              /\ \A i \in 1..Len(F.categories) : ~EqIgnoreAsciiCase(F.categories[i], call.query))
               => e < f

\* C4: from a heatmap without a record for N, once the only launches were
\* those of N and their writes are done, one launch leaves a record of count 1
\* and two leave one of count 2, which a reload joins into the entry of N
C4_SecondLaunchCountsTwo ==
  \A n \in AllNames :
    (counters.launches = counters.completed[n] /\ counters.completed[n] > 0) =>
      LET hm == LoadHeatmap(heatfile) IN
      /\ n \in DOMAIN hm
      /\ hm[n].count = counters.completed[n]
      /\ n \in DOMAIN JoinWithHeatmap(files, hm) =>
           JoinWithHeatmap(files, hm)[n].launch_count = counters.completed[n]

\* C5: with web search enabled and max_entries >= 1 the two web-search sites
\* never both push, and a query that is not empty, not reserved and matches
\* neither an entry nor a binary is answered with exactly one entry of
\* category "Web Search", of negative score
C5_OneWebSearchEntry ==
  (reply.done /\ call.fn = "search" /\ call.cfg.web_enabled /\ call.cfg.max_entries >= 1) =>
    /\ ~(reply.site1 /\ reply.site2)
    /\ (/\ call.query # <<>>
        /\ ~ShouldExcludeWebSearch(call.query)
        /\ ScanCatalogue(call.query, call.cfg, cache, heatfile, now,
                         GetActiveWindowClasses(call.probe, call.active_windows)).results = <<>>
        /\ CheckBinary(call.query, call.usr_bin, now) = <<>>) =>
         LET web == {i \in 1..Len(reply.results) :
                       \E c \in 1..Len(reply.results[i].app.categories) :
                         reply.results[i].app.categories[c] = WebSearchCategory}
         IN /\ Cardinality(web) = 1
            /\ \A i \in web : reply.results[i].score < 0

\* a query nothing matches, answered by the first web-search site, with room
\* for a second entry
C5_FallbackAnswered ==
  /\ reply.done
  /\ call.fn = "search"
  /\ call.cfg.max_entries >= 2
  /\ call.query = <<"d">>
  /\ reply.site1
  /\ Len(reply.results) = 1
  /\ reply.results[1].score = BONUS_SCORE_WEB_SEARCH

\* C6: with web search enabled, a query that is one of the reserved tokens
\* gets no result of category "Web Search"
C6_ReservedTokensExcluded ==
  (reply.done /\ call.fn = "search" /\ call.cfg.web_enabled
     /\ call.query \in ExcludedTerms) =>
    \A i \in 1..Len(reply.results) :
      \A c \in 1..Len(reply.results[i].app.categories) :
        reply.results[i].app.categories[c] # WebSearchCategory

\* the reply to "__refresh__" with web search enabled and entries allowed
C6_ReservedTokenAnswered ==
  /\ reply.done
  /\ call.fn = "search"
  /\ call.cfg.web_enabled
  /\ call.cfg.max_entries >= 1
  /\ call.query = <<"_", "_", "r", "e", "f", "r", "e", "s", "h", "_", "_">>
  /\ ~reply.site1
  /\ ~reply.site2

\* C7: a query that starts with "~", "$" or "/" is answered with entries of
\* kind File only, and the reply to "~", whose directory has a parent, starts
\* with the entry named ".."
C7_PathModeRouted ==
  (reply.done /\ call.fn = "search" /\ call.query # <<>>
     /\ call.query[1] \in {"~", "$", "/"}) =>
    /\ \A i \in 1..Len(reply.results) : reply.results[i].app.entry_type = "File"
    /\ (call.query = <<"~">> /\ call.cfg.max_entries >= 1) =>
         /\ reply.results # <<>>
         /\ reply.results[1].app.name = <<".", ".">>

\* C8: when no line matches, search_dmenu returns the query as the caller
\* passed it, alone, if allow_invalid is set, and nothing if it is not
C8_InvalidQueryReturnedRaw ==
  (/\ reply.done
   /\ call.fn = "dmenu"
   /\ call.cfg.max_entries >= 1
   /\ \A i \in 1..Len(call.lines) :
        ~FuzzyMatches(IF call.cfg.case_sensitive THEN call.lines[i]
                      ELSE ToLowercase(call.lines[i]),
                      IF call.cfg.case_sensitive THEN call.query
                      ELSE ToLowercase(call.query))) =>
    reply.lines = IF call.cfg.allow_invalid THEN <<call.query>> ELSE <<>>

\* C9: the catalogue is held by no writer, or by one writer (a launch-count
\* update or a reload) and no reader
C9_ReadersWriterDiscipline ==
  LET readers == {s \in Searchers : search[s].pc \in {"scan", "send"}}
      updates == {t \in Threads : launch[t].pc \in {"save", "write"}}
      writers == Cardinality(updates) + (IF reload.pc = "swap" THEN 1 ELSE 0)
  IN \/ writers = 0
     \/ writers = 1 /\ readers = {}

\* two searches hold read access at once while a launch waits to write
C9_TwoReaders ==
  /\ \A s \in Searchers : search[s].pc \in {"scan", "send"}
  /\ lock.readers = 2
  /\ \E t \in Threads : launch[t].pc = "wait"

\* C10: a search has scanned entries of one version of the catalogue only, and
\* the list it is about to send names all the entries of the version before the
\* reload or all those of the version after it
C10_ReloadAtomic ==
  LET before == {NameOf(f) : f \in FilesAtStart}
      after == {NameOf(f) : f \in FilesAfterChange}
  IN \A s \in Searchers :
       /\ search[s].pc \in {"scan", "send"} =>
            search[s].seen \subseteq before \/ search[s].seen \subseteq after
       /\ search[s].pc = "send" =>
            {search[s].results[i].app.name : i \in 1..Len(search[s].results)}
              \in {before, after}

\* a search about to send the previous entry set while the reload holds the
\* new one and waits for the catalogue
C10_SearchDuringReload ==
  \E s \in Searchers :
    /\ search[s].pc = "send"
    /\ reload.pc = "wait"
    /\ DOMAIN reload.apps # DOMAIN cache
    /\ search[s].seen = DOMAIN cache

\* C11: the launch threads of one process take turns at the heatmap file: the
\* mapping a thread loaded is still the mapping of the file when it writes, and
\* every name whose write was done has a record, so no update is lost
C11_LaunchWritesSerialized ==
  /\ \A t \in Threads :
       launch[t].pc = "write" => launch[t].heatmap = LoadHeatmap(heatfile)
  /\ \A n \in AllNames :
       counters.completed[n] > 0 => n \in DOMAIN LoadHeatmap(heatfile)

\* a launch thread between its load and its write of the heatmap file while
\* the thread of a launch of another name waits
C11_TwoLaunchesInFlight ==
  \E t, u \in Threads :
    /\ launch[t].pc = "write"
    /\ launch[u].pc = "wait"
    /\ launch[t].app_name # launch[u].app_name

\* C11 as stated, the heatmap write is serialized by no lock: a launch thread
\* that is reading, changing and writing the heatmap file holds no lock
C11_HeatmapWriteUnlocked ==
  \A t \in Threads : launch[t].pc \in {"save", "write"} => ~lock.writer


\* C12: once the reload and every launch thread have finished, every entry of
\* the catalogue whose name has a record in the heatmap file carries the count
\* of that record and a last_used time
C12_CatalogueMatchesHeatmap ==
  (reload.pc = "idle" /\ \A t \in Threads : launch[t].pc = "none") =>
    \A n \in DOMAIN cache \cap DOMAIN LoadHeatmap(heatfile) :
      /\ cache[n].launch_count = LoadHeatmap(heatfile)[n].count
      /\ cache[n].last_used # NoneVal


\* C13: increment_launch_count returns to its caller without waiting for the
\* lock or for the file: whenever a row of an application can be activated the
\* call can be made and return, whoever holds the lock
C13_LaunchReturnsAtOnce ==
  (/\ window = "open"
   /\ counters.launches < MaxLaunches
   /\ \E i \in 1..Len(store) : store[i].entry_type = "Application")
  => ENABLED LaunchCall

\* the call was made and has returned, its thread waits for the lock, which
\* the reload holds for writing, or a search for reading
C13_ReturnedWhileLockHeld ==
  /\ \E t \in Threads : launch[t].pc = "wait"
  /\ \/ lock.writer /\ reload.pc = "swap"
     \/ lock.readers > 0
  /\ counters.launches < MaxLaunches
  /\ window = "open"


\* C14: under fair scheduling every search that was called sends its reply,
\* and sends it once (a task leaves only by SearchSend); every launch thread
\* and every reload that was started gets the lock and ends; a search called
\* while another is in flight changes none of this. No task stays in flight
\* forever: each is idle again and again
C14_EveryTaskCompletes ==
  /\ \A s \in Searchers : []<>(search[s].pc = "idle")
  /\ \A t \in Threads : []<>(launch[t].pc = "none")
  /\ []<>(reload.pc = "idle")
  /\ [][\A s \in Searchers :
          (search[s].pc # "idle" /\ search'[s].pc = "idle") => search[s].pc = "send"]_vars

\* a search holds the read guard while a launch thread, then a second search,
\* and the reload wait in the queue of the lock
C14_QueueBehindReader ==
  /\ lock.readers > 0
  /\ Len(lock.queue) >= 3
  /\ \E t \in Threads : lock.queue[1] = LaunchThread(t)
  /\ \E i \in 2..Len(lock.queue) : lock.queue[i] = SearchTask(2)
  /\ \E i \in 2..Len(lock.queue) : lock.queue[i] = ReloadTask


\* C15: load_heatmap returns the empty mapping when the heatmap file is
\* missing, unreadable or not valid JSON, and the stored mapping otherwise;
\* the catalogue loaded over such a file has no entry with a launch count or
\* a last_used time, and a search over it ends as it does without a file
C15_BrokenHeatmapIsEmpty ==
  /\ heatfile.status = "valid" => LoadHeatmap(heatfile) = heatfile.map
  /\ heatfile.status # "valid" =>
       /\ LoadHeatmap(heatfile) = EmptyMap
       /\ \A n \in DOMAIN cache :
            cache[n].launch_count = 0 /\ cache[n].last_used = NoneVal
       /\ (reply.done /\ call.fn = "search") =>
            IF reply.error
            THEN ProbePanics(call.probe) /\ BonusScoreCalled(call.query, call.cfg, cache)
            ELSE \E r \in SearchApplications(
                             call.query, call.cfg, cache, MissingFile, now,
                             GetActiveWindowClasses(call.probe, call.active_windows),
                             call.usr_bin) :
                   r.results = reply.results

\* a search was answered over a heatmap file that holds records but cannot
\* be parsed, or cannot be read
C15_AnsweredOverBrokenFile ==
  /\ reply.done
  /\ call.fn = "search"
  /\ heatfile.status \in {"unreadable", "invalid"}
  /\ heatfile.map # EmptyMap
  /\ reply.results # <<>>


\* C16: when the probe for the active windows fails, for want of a display
\* or by a failed tree query, the search still replies with a list, and no
\* result of an entry of the catalogue carries the penalty of an open window
C16_ProbeFailureTolerated ==
  (reply.done /\ call.fn = "search" /\ call.probe # "ok") =>
    /\ ~reply.error
    /\ \E r \in SearchApplications(call.query, call.cfg, cache, heatfile, now, {},
                                  call.usr_bin) :
         r.results = reply.results


\* C17: the reply of a search is determined by the query, the catalogue, the
\* heatmap, the configuration and the clock: the sequence that was returned
\* is the only one search_applications can return for them
C17_OrderDetermined ==
  (reply.done /\ call.fn = "search" /\ ~reply.error) =>
    \A r \in SearchApplications(call.query, call.cfg, cache, heatfile, now,
                                GetActiveWindowClasses(call.probe, call.active_windows),
                                call.usr_bin) :
      r.results = reply.results


\* C18: the list search_applications returns for a query that is not empty is
\* in non-increasing order of score, also when the web-search entry was
\* pushed after the first sort
C18_NonIncreasingScores ==
  (reply.done /\ call.fn = "search" /\ call.query # <<>>) =>
    \A i \in 1..(Len(reply.results) - 1) :
      reply.results[i].score >= reply.results[i + 1].score

\* a reply of two results of different scores, the second the web-search
\* entry pushed after the first sort
C18_WebEntryPushedAfterSort ==
  /\ reply.done
  /\ call.fn = "search"
  /\ call.query # <<>>
  /\ reply.site2
  /\ Len(reply.results) = 2
  /\ reply.results[1].score > reply.results[2].score
  /\ reply.results[2].app.categories = <<WebSearchCategory>>


\* C19: no step removes a record from the heatmap file or lowers a persisted
\* count, and the write of a launch of a name that has a record leaves the
\* count of that name one higher than it was
C19_CountsOnlyGrow ==
  [][/\ DOMAIN LoadHeatmap(heatfile) \subseteq DOMAIN LoadHeatmap(heatfile')
     /\ \A n \in DOMAIN LoadHeatmap(heatfile) :
          LoadHeatmap(heatfile')[n].count >= LoadHeatmap(heatfile)[n].count
     /\ \A t \in Threads :
          (/\ launch[t].pc = "write"
           /\ launch'[t].pc = "none"
           /\ launch[t].app_name \in DOMAIN LoadHeatmap(heatfile)) =>
            LoadHeatmap(heatfile')[launch[t].app_name].count
              = LoadHeatmap(heatfile)[launch[t].app_name].count + 1]_vars


\* C20: the score of every entry of a browse list, which is its bonus score,
\* is 10000 - floor(seconds since last use / 10) + min(use count * 20, 200)
\* when the heatmap has a record of its name and min(launch_count * 20, 200)
\* otherwise, plus 1000 for an icon other than "application-x-executable",
\* minus 500 when a class of an open window is part of its lower-cased name
\* or exec
C20_BonusScoreAsStated ==
  (reply.done /\ call.fn = "search" /\ call.query = <<>> /\ ~reply.error) =>
    \A i \in 1..Len(reply.results) :
      LET app == reply.results[i].app
          hm == LoadHeatmap(heatfile)
          tenths == (now - hm[app.name].last_used) \div 10
          uses == hm[app.name].count * 20
          launches == app.launch_count * 20
          usage == IF app.name \in DOMAIN hm
                   THEN 10000 - tenths + (IF uses <= 200 THEN uses ELSE 200)
                   ELSE (IF launches <= 200 THEN launches ELSE 200)
          icon == IF app.icon_name = "application-x-executable" THEN 0 ELSE 1000
          open == IF \E class \in GetActiveWindowClasses(call.probe, call.active_windows) :
                       \/ Contains(ToLowercase(app.name), class)
                       \/ Contains(ToLowercase(app.exec), class)
                  THEN 500 ELSE 0
      IN reply.results[i].score = usage + icon - open


\* C21: the reply to a non-empty query holds at most one result that is the
\* entry itself (not one of its actions) for every entry of the catalogue
C21_OneResultPerEntry ==
  (reply.done /\ call.fn = "search" /\ call.query # <<>> /\ ~reply.error) =>
    \A n \in DOMAIN cache :
      Cardinality({i \in 1..Len(reply.results) : reply.results[i].app = cache[n]}) <= 1


\* C22: with web search enabled and room for a result, the reply to a
\* non-empty query that is not a reserved token holds a web-search entry,
\* however many entries of the catalogue match
C22_WebEntryInReply ==
  (/\ reply.done /\ call.fn = "search" /\ ~reply.error
   /\ call.cfg.web_enabled /\ call.query # <<>> /\ call.cfg.max_entries >= 1
   /\ ~ShouldExcludeWebSearch(call.query)) =>
    \E i \in 1..Len(reply.results) :
      \E c \in 1..Len(reply.results[i].app.categories) :
        reply.results[i].app.categories[c] = WebSearchCategory


\* C23: in a reply that holds a web-search entry every result made of an
\* entry of the catalogue comes before it, whatever the heatmap holds
C23_GenuineBeforeWebEntry ==
  (reply.done /\ call.fn = "search" /\ ~reply.error) =>
    \A i, j \in 1..Len(reply.results) :
      (/\ reply.results[i].app.categories = <<WebSearchCategory>>
       /\ reply.results[j].app.path # <<>>
       /\ reply.results[j].app.path[Len(reply.results[j].app.path)] = ".desktop") =>
        j < i


\* C24: with the calculator enabled and room for a result, the reply to a
\* query that starts with a digit, for which neither the catalogue nor
\* /usr/bin gave a result, holds exactly one entry of category "Calculation",
\* with web search enabled as with web search disabled
C24_OneCalculationEntry ==
  (/\ reply.done /\ call.fn = "search" /\ ~reply.error
   /\ call.cfg.calculator /\ call.cfg.max_entries >= 1
   /\ call.query # <<>>
   /\ IsAsciiDigit(call.query[1])
   /\ WithBinary(ScanCatalogue(call.query, call.cfg, cache, heatfile, now,
                               GetActiveWindowClasses(call.probe, call.active_windows)),
                 call.query, call.usr_bin, now) = <<>>) =>
    Cardinality({i \in 1..Len(reply.results) :
                   reply.results[i].app.categories = <<CalculationCategory>>}) = 1


\* C25: search_dmenu, when it does not fall back on the query itself, returns
\* lines as they were given; with case_sensitive every line returned holds
\* the query as a subsequence in the same letter case; without it every line
\* returned holds the query as a subsequence when case is ignored, and, when
\* max_entries leaves room for all the lines, every such line is returned
C25_DmenuRespectsCase ==
  (reply.done /\ call.fn = "dmenu" /\ ~call.cfg.allow_invalid) =>
    LET returned == {reply.lines[i] : i \in 1..Len(reply.lines)}
        given == {call.lines[i] : i \in 1..Len(call.lines)}
    IN /\ returned \subseteq given
       /\ call.cfg.case_sensitive =>
            \A l \in returned : IsSubsequence(call.query, l)
       /\ ~call.cfg.case_sensitive =>
            /\ \A l \in returned :
                 IsSubsequence(ToLowercase(call.query), ToLowercase(l))
            /\ Len(call.lines) <= call.cfg.max_entries =>
                 \A l \in given :
                   IsSubsequence(ToLowercase(call.query), ToLowercase(l)) => l \in returned


\* C26: in the reply to a non-empty query from which nothing was truncated,
\* with show_actions every action whose label "Entry - Action" contains or
\* fuzzy-matches the query has a result of its own, named by the label, with
\* the exec of the action, its icon when it has one, and the bonus score of
\* its entry less 100; without show_actions no result is named by a label
C26_ActionsByLabel ==
  (/\ reply.done /\ call.fn = "search" /\ ~reply.error
   /\ call.query # <<>>
   /\ Len(reply.results) < call.cfg.max_entries) =>
    \A n \in DOMAIN cache :
      \A k \in 1..Len(cache[n].actions) :
        LET action == cache[n].actions[k]
            label == cache[n].name \o <<" ", "-", " ">> \o action.name
            matches == \/ Contains(ToLowercase(label), ToLowercase(call.query))
                       \/ FuzzyMatches(ToLowercase(label), call.query)
            shown == \E i \in 1..Len(reply.results) :
                       /\ reply.results[i].app.name = label
                       /\ reply.results[i].app.exec = action.exec
                       /\ action.icon_name # NoIcon =>
                            reply.results[i].app.icon_name = action.icon_name
                       /\ reply.results[i].score =
                            CalculateBonusScore(cache[n], heatfile, now,
                              GetActiveWindowClasses(call.probe, call.active_windows)) - 100
        IN IF call.cfg.show_actions
           THEN matches => shown
           ELSE \A i \in 1..Len(reply.results) : reply.results[i].app.name # label


\* C27: a step of a launch (the call, the take of the write guard with the
\* update, the load and the write of the heatmap) leaves the keys of the
\* catalogue as they are and changes no entry but the one keyed by the name
\* launched, of which it changes launch_count and last_used only, and that in
\* the step that takes the guard; a launch of a name that is no key changes
\* nothing in the catalogue
C27_LaunchChangesOneEntry ==
  [][launch' # launch =>
       /\ DOMAIN cache' = DOMAIN cache
       /\ \A m \in DOMAIN cache :
            /\ [cache'[m] EXCEPT !.launch_count = cache[m].launch_count,
                                 !.last_used = cache[m].last_used] = cache[m]
            /\ cache'[m] # cache[m] =>
                 \E t \in Threads : /\ launch[t].pc \in {"wait", "queued"}
                                    /\ launch'[t].pc = "save"
                                    /\ launch[t].app_name = m]_vars

\* a launch thread has taken the guard and updated its entry, one of two of
\* the catalogue, and the other entry has never been launched
C27_EntryUpdatedBesideAnother ==
  \E t \in Threads :
    /\ launch[t].pc = "save"
    /\ launch[t].app_name \in DOMAIN cache
    /\ cache[launch[t].app_name].launch_count = launch[t].count
    /\ cache[launch[t].app_name].last_used = launch[t].now
    /\ \E m \in DOMAIN cache : m # launch[t].app_name /\ cache[m].launch_count = 0


\* C28: a launch whose command could not be spawned leaves no trace. The
\* window closes with the first launch that is spawned and opens again with
\* the next start only, so that a step from an open window to an open window
\* belongs to no launch that succeeded: such a step leaves the heatmap file,
\* and launch_count and last_used of every entry of the catalogue, as they were
C28_FailedLaunchLeavesNoTrace ==
  [][(window = "open" /\ window' = "open") =>
       /\ heatfile' = heatfile
       /\ DOMAIN cache' = DOMAIN cache
       /\ \A n \in DOMAIN cache :
            /\ cache'[n].launch_count = cache[n].launch_count
            /\ cache'[n].last_used = cache[n].last_used]_vars


\* C29: while a search is in flight the interactive thread can handle a
\* keystroke, which calls another search
C29_KeystrokeDuringSearch ==
  (window = "open" /\ \E s \in Searchers : search[s].pc # "idle") => ENABLED Keystroke


\* C30: whatever the records of the heatmap, one later than the clock
\* included, the subtraction of last_used from the clock does not overflow:
\* a browse search whose probe for the open windows works sends its reply,
\* and the score of every entry of it, which is its bonus score, is at most
\* 10000 + 200 + 1000
C30_NoOverflowInAge ==
  (reply.done /\ call.fn = "search" /\ call.query = <<>> /\ ~ProbePanics(call.probe)) =>
    /\ ~reply.error
    /\ \A i \in 1..Len(reply.results) : reply.results[i].score <= 10000 + 200 + 1000

====
